---------------------------- MODULE Spec2Model ----------------------------
(***************************************************************************)
(* The delay pipeline of railway-3d: station-name reconciliation           *)
(* (generateStationNameVariations, normalizeStationName,                   *)
(* find3DStationName), delay classification (getDelayCategory),            *)
(* aggregation (aggregateDelaysByStation) and the polling orchestrator     *)
(* (findWorkingApiName, fetchDelayData, startDelayDataPolling) of          *)
(* src/railway-3d/src/delays/delay-fetcher.ts and delay-types.ts.          *)
(*                                                                         *)
(* JavaScript strings are TLA+ strings (TLC gives Len, SubSeq and \o on    *)
(* them); a number that may be a fraction (avgDelay) is the pair           *)
(* [num, den] of the division that produced it, den > 0.                   *)
(***************************************************************************)
EXTENDS Integers, Sequences, FiniteSets, TLC

VARIABLES
    stations,           \* Object.keys(railwayData.stations), in iteration order
    stationNameCache,   \* the module's Map from station name to API name or null
    polling,            \* startDelayDataPolling: "idle", "active" (interval set), "stopped"
    cycles,             \* the calls of fetchDelayData, in the order they were made
    callbackLog,        \* the invocations of the subscriber callback, in order
    subscriber,         \* what the subscriber callback does: "returns" or "throws"
    phase,              \* which pure function was applied last
    arg,                \* its argument
    ret                 \* its return value

pureVars == <<phase, arg, ret>>
pollVars == <<stationNameCache, polling, cycles, callbackLog>>
vars == <<stations, stationNameCache, polling, cycles, callbackLog, subscriber,
          phase, arg, ret>>

---------------------------------------------------------------------------
(* Bounds of the model *)

\* an input name is the concatenation of at most this many NameParts
MaxNameParts == 3
\* aggregateDelaysByStation is applied to at most this many journeys
MaxJourneys == 2
\* fetchDelayData is called at most this many times (the immediate call
\* and the interval's ticks)
MaxCycles == 2

---------------------------------------------------------------------------
(* JavaScript string primitives *)

UpperChars == "ABCDEFGHIJKLMNOPQRSTUVWXYZÆØÅ"
LowerChars == "abcdefghijklmnopqrstuvwxyzæøå"

CharAt(s, i) == SubSeq(s, i, i)

\* String.prototype.toLowerCase on one character
RECURSIVE LowerTable(_)
LowerTable(n) ==
    IF n = 0 THEN <<>>
    ELSE (CharAt(UpperChars, n) :> CharAt(LowerChars, n)) @@ LowerTable(n - 1)

LowerOf == LowerTable(Len(UpperChars))

LowerChar(c) == IF c \in DOMAIN LowerOf THEN LowerOf[c] ELSE c

RECURSIVE toLowerCase(_)
toLowerCase(s) ==
    IF Len(s) = 0 THEN ""
    ELSE LowerChar(CharAt(s, 1)) \o toLowerCase(SubSeq(s, 2, Len(s)))

\* the regular expression class \s, on the characters the model uses
IsSpace(c) == c = " "

endsWith(s, suffix) ==
    /\ Len(s) >= Len(suffix)
    /\ SubSeq(s, Len(s) - Len(suffix) + 1, Len(s)) = suffix

includes(s, sub) ==
    \/ Len(sub) = 0
    \/ \E i \in 1..(Len(s) - Len(sub) + 1) : SubSeq(s, i, i + Len(sub) - 1) = sub

\* s.slice(0, -n)
sliceEnd(s, n) == SubSeq(s, 1, Len(s) - n)

RECURSIVE trimEnd(_)
trimEnd(s) ==
    IF Len(s) > 0 /\ IsSpace(CharAt(s, Len(s))) THEN trimEnd(sliceEnd(s, 1)) ELSE s

RECURSIVE trimStart(_)
trimStart(s) ==
    IF Len(s) > 0 /\ IsSpace(CharAt(s, 1)) THEN trimStart(SubSeq(s, 2, Len(s))) ELSE s

trim(s) == trimStart(trimEnd(s))

\* s.replace(/\s+<word>$/i, '') for a lower-case word, applied to a string
\* that is already lower-case: the match is the whole run of white space
\* before the final word, and the word.
stripSuffixWord(s, word) ==
    IF /\ endsWith(s, word)
       /\ Len(s) > Len(word)
       /\ IsSpace(CharAt(s, Len(s) - Len(word)))
    THEN trimEnd(sliceEnd(s, Len(word)))
    ELSE s

---------------------------------------------------------------------------
(* Name reconciler *)

normalizeStationName_noLower(name) ==
    trim(stripSuffixWord(stripSuffixWord(name, "stasjon"), "s"))

normalizeStationName_sFirst(name) ==
    trim(stripSuffixWord(stripSuffixWord(toLowerCase(name), "s"), "stasjon"))

normalizeStationName(name) ==
    trim(stripSuffixWord(stripSuffixWord(toLowerCase(name), "stasjon"), "s"))

\* the value of a reference that is null
Null == "<null>"

\* the first element, in iteration order, of a loop over stations that
\* returns at the indices of hits; null when the loop falls through
FirstOf(hits) ==
    IF hits = {} THEN Null
    ELSE stations[CHOOSE i \in hits : \A j \in hits : i <= j]

find3DStationName_onePass(apiStationName) ==
    LET normalized == normalizeStationName(apiStationName)
        keys == {<<i, normalizeStationName(stations[i])>> : i \in 1..Len(stations)}
        partial == {k[1] : k \in {k \in keys :
                        \/ includes(k[2], normalized)
                        \/ includes(normalized, k[2])}}
    IN  FirstOf(partial)

find3DStationName(apiStationName) ==
    LET normalized == normalizeStationName(apiStationName)
        keys == {<<i, normalizeStationName(stations[i])>> : i \in 1..Len(stations)}
        exact == {k[1] : k \in {k \in keys : k[2] = normalized}}
        partial == {k[1] : k \in {k \in keys :
                        \/ includes(k[2], normalized)
                        \/ includes(normalized, k[2])}}
    IN  IF exact # {} THEN FirstOf(exact) ELSE FirstOf(partial)

---------------------------------------------------------------------------
(* Delay classifier: delay-types.ts *)

ON_TIME == 60
MINOR == 300
MODERATE == 600
SEVERE == 1200

\* a JavaScript number: the quotient num / den, den >= 0
Num(n) == [num |-> n, den |-> 1]
Quot(n, d) == [num |-> n, den |-> d]

Abs(x) == IF x < 0 THEN -x ELSE x

\* Math.abs(x) < threshold, for the quotient x
AbsLess(x, threshold) == Abs(x.num) < threshold * x.den

getDelayCategory_signed(delaySeconds) ==
    LET less(threshold) == delaySeconds.num < threshold * delaySeconds.den
    IN  IF less(ON_TIME) THEN "on-time"
        ELSE IF less(MINOR) THEN "minor"
        ELSE IF less(MODERATE) THEN "moderate"
        ELSE IF less(SEVERE) THEN "severe"
        ELSE "chaos"

getDelayCategory_inclusive(delaySeconds) ==
    LET atMost(threshold) ==
            Abs(delaySeconds.num) <= threshold * delaySeconds.den
    IN  IF atMost(ON_TIME) THEN "on-time"
        ELSE IF atMost(MINOR) THEN "minor"
        ELSE IF atMost(MODERATE) THEN "moderate"
        ELSE IF atMost(SEVERE) THEN "severe"
        ELSE "chaos"

getDelayCategory(delaySeconds) ==
    IF AbsLess(delaySeconds, ON_TIME) THEN "on-time"
    ELSE IF AbsLess(delaySeconds, MINOR) THEN "minor"
    ELSE IF AbsLess(delaySeconds, MODERATE) THEN "moderate"
    ELSE IF AbsLess(delaySeconds, SEVERE) THEN "severe"
    ELSE "chaos"

---------------------------------------------------------------------------
(* Aggregator *)

\* a Map: a function whose domain is the set of keys
EmptyMap == [k \in {} |-> {}]

MapSet(m, k, v) == [x \in DOMAIN m \cup {k} |-> IF x = k THEN v ELSE m[x]]

\* delays.reduce((sum, d) => sum + d, 0)
RECURSIVE SumOf(_)
SumOf(delays) ==
    IF delays = <<>> THEN 0 ELSE Head(delays) + SumOf(Tail(delays))

\* Math.max(...delays), delays not empty
RECURSIVE MathMax(_)
MathMax(delays) ==
    IF Len(delays) = 1 THEN Head(delays)
    ELSE LET m == MathMax(Tail(delays))
         IN  IF Head(delays) > m THEN Head(delays) ELSE m

\* lines 148-153 and 159-164: push the delay on the station's entry
pushDelay(stationMap, stationName, delay) ==
    LET data == IF stationName \in DOMAIN stationMap
                THEN stationMap[stationName]
                ELSE [delays |-> <<>>, count |-> 0]
    IN  MapSet(stationMap, stationName,
               [delays |-> Append(data.delays, delay), count |-> data.count + 1])

\* line 147: if (lastStation)
countsLast(lastStation) == lastStation # Null

\* line 158: if (nextStation && nextStation !== lastStation)
countsNext_twice(nextStation, lastStation) == nextStation # Null

countsNext(nextStation, lastStation) ==
    nextStation # Null /\ nextStation # lastStation

\* the body of journeys.forEach, lines 144-166
processJourney(stationMap, journey) ==
    LET lastStation == find3DStationName(journey.last_stop_name)
        nextStation == find3DStationName(journey.next_stop_name)
        afterLast ==
            IF countsLast(lastStation)
            THEN pushDelay(stationMap, lastStation, journey.recorded_delay_seconds)
            ELSE stationMap
    IN  IF countsNext(nextStation, lastStation)
        THEN pushDelay(afterLast, nextStation, journey.recorded_delay_seconds)
        ELSE afterLast

RECURSIVE collectDelays(_, _)
collectDelays(journeys, stationMap) ==
    IF journeys = <<>> THEN stationMap
    ELSE collectDelays(Tail(journeys), processJourney(stationMap, Head(journeys)))

\* line 171
meanOf(data) == Quot(SumOf(data.delays), data.count)

\* line 179: the category is that of the mean
categoryOf_onTime(avgDelay, maxDelay) ==
    IF Abs(avgDelay.num) <= ON_TIME * avgDelay.den THEN "on-time"
    ELSE getDelayCategory(avgDelay)

categoryOf_max(avgDelay, maxDelay) == getDelayCategory(Num(maxDelay))

categoryOf(avgDelay, maxDelay) == getDelayCategory(avgDelay)

\* lines 170-181: the statistics of one station
stationInfo(stationName, data) ==
    LET avgDelay == meanOf(data)
        maxDelay == MathMax(data.delays)
    IN  [stationName |-> stationName,
         avgDelay |-> avgDelay,
         maxDelay |-> maxDelay,
         journeyCount |-> data.count,
         delayCategory |-> categoryOf(avgDelay, maxDelay)]

aggregateDelaysByStation(journeys) ==
    LET stationMap == collectDelays(journeys, EmptyMap)
    IN  [stationName \in DOMAIN stationMap |->
            stationInfo(stationName, stationMap[stationName])]

---------------------------------------------------------------------------
(* Name variants *)

\* [...new Set(variations)]: first occurrences, in order
dedupe_none(list, seen) == list

RECURSIVE dedupe(_, _)
dedupe(list, seen) ==
    IF list = <<>> THEN <<>>
    ELSE IF Head(list) \in seen THEN dedupe(Tail(list), seen)
    ELSE <<Head(list)>> \o dedupe(Tail(list), seen \cup {Head(list)})

\* lines 19-43: the variations pushed, in order
variationsPushed(stationName) ==
    LET baseName == sliceEnd(stationName, 2)
        original == <<stationName>>
        stasjon ==
            IF ~includes(toLowerCase(stationName), "stasjon")
            THEN <<stationName \o " stasjon">> \o
                 (IF endsWith(stationName, " S")
                  THEN <<baseName \o " stasjon", baseName>>
                  ELSE <<>>)
            ELSE <<>>
        withoutS == IF endsWith(stationName, " S") THEN <<baseName>> ELSE <<>>
        lower == <<toLowerCase(stationName)>>
    IN  original \o stasjon \o withoutS \o lower

generateStationNameVariations(stationName) ==
    dedupe(variationsPushed(stationName), {})

---------------------------------------------------------------------------
(* The API, as tryFetchStation sees it *)

\* the names under which the API has journeys to report
ServedNames == {"Bergen stasjon"}

\* the journeys the API reports for a served name
Payload(name) ==
    <<[last_stop_name |-> "Arna", next_stop_name |-> "Bergen stasjon",
       recorded_delay_seconds |-> 30],
      [last_stop_name |-> "Voss", next_stop_name |-> "Bergen",
       recorded_delay_seconds |-> 150]>>

FailureKinds ==
    {"network-error", "not-ok", "invalid-json", "not-array", "empty-array"}

\* what a GET of API_BASE_URL + name may come back with
Responses(name) ==
    [kind : FailureKinds, body : {<<>>}]
        \cup (IF name \in ServedNames
              THEN {[kind |-> "journeys", body |-> Payload(name)]}
              ELSE {})

\* the value tryFetchStation returns for a response: null, or the array
NoData == [isNull |-> TRUE, data |-> <<>>]

tryFetchStation_ignoreStatus(response) ==
    IF response.kind = "network-error" THEN NoData
    ELSE IF response.kind = "invalid-json" THEN NoData
    ELSE IF response.kind # "not-array" /\ Len(response.body) > 0
    THEN [isNull |-> FALSE, data |-> response.body]
    ELSE NoData

tryFetchStation(response) ==
    IF response.kind = "network-error" THEN NoData          \* fetch rejects
    ELSE IF response.kind = "not-ok" THEN NoData            \* !response.ok
    ELSE IF response.kind = "invalid-json" THEN NoData      \* json() rejects
    ELSE IF response.kind # "not-array" /\ Len(response.body) > 0
    THEN [isNull |-> FALSE, data |-> response.body]
    ELSE NoData

---------------------------------------------------------------------------
(* fetchDelayData *)

BATCH_SIZE == 5

priorityStations ==
    <<"Oslo S", "Bergen", "Trondheim S", "Stavanger", "Kristiansand",
      "Drammen", "Sandvika", "Lillestrøm", "Nationaltheatret">>

Range(seq) == {seq[i] : i \in 1..Len(seq)}

\* lines 208-211
buildOrderedStations_unfiltered ==
    SelectSeq(priorityStations, LAMBDA s : s \in Range(stations)) \o stations

buildOrderedStations ==
    SelectSeq(priorityStations, LAMBDA s : s \in Range(stations))
        \o SelectSeq(stations, LAMBDA s : s \notin Range(priorityStations))

\* orderedStations.slice(i, i + BATCH_SIZE)
batchAt(orderedStations, i) ==
    SubSeq(orderedStations, i + 1,
           IF i + BATCH_SIZE < Len(orderedStations)
           THEN i + BATCH_SIZE ELSE Len(orderedStations))

\* one member of batchPromises: where its async function stands
\*   "probe": findWorkingApiName awaits tryFetchStation(variations[k])
\*   "fetch": line 231 awaits tryFetchStation(apiName)
\*   "done":  the function has returned journeys
Probing(variations, k) ==
    [pc |-> "probe", variations |-> variations, k |-> k, apiName |-> Null,
     journeys |-> <<>>]
Fetching(apiName) ==
    [pc |-> "fetch", variations |-> <<>>, k |-> 0, apiName |-> apiName,
     journeys |-> <<>>]
Settled(journeys) ==
    [pc |-> "done", variations |-> <<>>, k |-> 0, apiName |-> Null,
     journeys |-> journeys]

\* a task in one of these states has an HTTP request outstanding
Awaits(task) == task.pc \in {"probe", "fetch"}

\* the name the outstanding request of a task asks for
RequestName(task) ==
    IF task.pc = "probe" THEN task.variations[task.k] ELSE task.apiName

\* lines 226-231: after findWorkingApiName has returned apiName
afterResolve(apiName) ==
    IF apiName = Null THEN Settled(<<>>) ELSE Fetching(apiName)

\* lines 80-82: the cache is consulted first
cacheHit_never(stationName, cache) == FALSE

cacheHit(stationName, cache) == stationName \in DOMAIN cache

\* lines 222-224 and 80-88: a batch member up to its first request
enterStation(stationName, cache) ==
    IF cacheHit(stationName, cache)
    THEN afterResolve(cache[stationName])
    ELSE Probing(generateStationNameVariations(stationName), 1)

\* lines 88-99: the probe of variations[k] has come back with data
onProbe_keepPayload(stationName, task, data, cache) ==
    LET variation == task.variations[task.k]
    IN  IF ~data.isNull
        THEN [task |-> Settled(data.data),
              cache |-> MapSet(cache, stationName, variation)]
        ELSE IF task.k < Len(task.variations)
        THEN [task |-> Probing(task.variations, task.k + 1), cache |-> cache]
        ELSE [task |-> afterResolve(Null),
              cache |-> MapSet(cache, stationName, Null)]

onProbe_noSentinel(stationName, task, data, cache) ==
    LET variation == task.variations[task.k]
    IN  IF ~data.isNull
        THEN [task |-> afterResolve(variation),
              cache |-> MapSet(cache, stationName, variation)]
        ELSE IF task.k < Len(task.variations)
        THEN [task |-> Probing(task.variations, task.k + 1), cache |-> cache]
        ELSE [task |-> afterResolve(Null), cache |-> cache]

onProbe(stationName, task, data, cache) ==
    LET variation == task.variations[task.k]
    IN  IF ~data.isNull
        THEN [task |-> afterResolve(variation),
              cache |-> MapSet(cache, stationName, variation)]
        ELSE IF task.k < Len(task.variations)
        THEN [task |-> Probing(task.variations, task.k + 1), cache |-> cache]
        ELSE [task |-> afterResolve(Null),
              cache |-> MapSet(cache, stationName, Null)]

\* lines 231-237: the fetch under the working name has come back with data
onFetch(task, data) ==
    IF ~data.isNull /\ Len(data.data) > 0 THEN Settled(data.data) ELSE Settled(<<>>)

\* a call of fetchDelayData: its locals, and what it has done so far
\*   requested[s]: the requests made for station s
\*   gotData[s]:   the API name whose fetch at line 231 returned journeys
\*   sentinelHit:  the stations for which the cache returned null
\*   nameHit[s]:   the API name the cache returned for station s
\*   finished:     the stations whose batch member has returned
\*   unstable:     a name that had journeys when probed had none when
\*                 fetched at line 231
NewCycle_carryOver ==
    [orderedStations |-> buildOrderedStations,
     i |-> 0, task |-> EmptyMap,
     allJourneys |-> IF cycles = <<>> THEN <<>>
                     ELSE cycles[Len(cycles)].allJourneys,
     successfulFetches |-> 0,
     state |-> "running", result |-> EmptyMap,
     requested |-> [s \in Range(stations) |-> 0],
     gotData |-> EmptyMap, sentinelHit |-> {}, unstable |-> FALSE,
     nameHit |-> EmptyMap, finished |-> {}]

NewCycle ==
    [orderedStations |-> buildOrderedStations,
     i |-> 0, task |-> EmptyMap, allJourneys |-> <<>>, successfulFetches |-> 0,
     state |-> "running", result |-> EmptyMap,
     requested |-> [s \in Range(stations) |-> 0],
     gotData |-> EmptyMap, sentinelHit |-> {}, unstable |-> FALSE,
     nameHit |-> EmptyMap, finished |-> {}]

\* lines 220-238: the batch at i is mapped to its promises
startBatch(cy, cache) ==
    LET batch == Range(batchAt(cy.orderedStations, cy.i))
        task == [s \in batch |-> enterStation(s, cache)]
    IN  [cy EXCEPT
            !.task = task,
            !.requested = [s \in DOMAIN @ |->
                            IF s \in batch /\ Awaits(task[s]) THEN @[s] + 1 ELSE @[s]],
            !.sentinelHit = @ \cup {s \in batch : s \in DOMAIN cache /\ cache[s] = Null},
            !.nameHit = [s \in DOMAIN @ \cup {t \in batch : t \in DOMAIN cache /\ cache[t] # Null} |->
                            IF s \in DOMAIN @ THEN @[s] ELSE cache[s]],
            !.finished = @ \cup {s \in batch : task[s].pc = "done"}]

batchSettled_any(cy) == \E s \in DOMAIN cy.task : cy.task[s].pc = "done"

batchSettled(cy) == \A s \in DOMAIN cy.task : cy.task[s].pc = "done"

RECURSIVE flatten(_, _)
flatten(batch, task) ==
    IF batch = <<>> THEN <<>>
    ELSE task[Head(batch)].journeys \o flatten(Tail(batch), task)

\* lines 240-241 and the loop's i += BATCH_SIZE
joinBatch_dropped(cy) ==
    [cy EXCEPT !.i = @ + BATCH_SIZE, !.task = EmptyMap]

joinBatch(cy) ==
    [cy EXCEPT !.allJourneys = @ \o flatten(batchAt(cy.orderedStations, cy.i), cy.task),
               !.i = @ + BATCH_SIZE,
               !.task = EmptyMap]

\* lines 244-250
finish(cy) ==
    [cy EXCEPT !.state = "resolved",
               !.result = IF Len(cy.allJourneys) = 0 THEN EmptyMap
                          ELSE aggregateDelaysByStation(cy.allJourneys)]

\* the for loop, from its test at line 219 up to the next request that is
\* awaited, or to the return
RECURSIVE runLoop(_, _)
runLoop(cy, cache) ==
    IF cy.i < Len(cy.orderedStations)
    THEN LET started == startBatch(cy, cache)
         IN  IF batchSettled(started) THEN runLoop(joinBatch(started), cache)
             ELSE started
    ELSE finish(cy)

\* line 240: Promise.all resumes the loop once every member has settled
resume(cy, cache) ==
    IF batchSettled(cy) THEN runLoop(joinBatch(cy), cache) ELSE cy

---------------------------------------------------------------------------
(* startDelayDataPolling *)

\* fetchDelayData().then(callback): the callback gets the resolved value
deliver_early(log, c, cy) ==
    Append(log, [cycle |-> c, delayData |-> cy.result])

deliver_nonEmpty(log, c, cy) ==
    IF cy.state = "resolved" /\ cy.result # EmptyMap
    THEN Append(log, [cycle |-> c, delayData |-> cy.result])
    ELSE log

deliver(log, c, cy) ==
    IF cy.state = "resolved"
    THEN Append(log, [cycle |-> c, delayData |-> cy.result])
    ELSE log

\* lines 260-265: startDelayDataPolling fetches at once and sets the interval
StartPolling ==
    /\ polling = "idle"
    /\ polling' = "active"
    /\ LET cy == runLoop(NewCycle, stationNameCache)
       IN  /\ cycles' = Append(cycles, cy)
           /\ callbackLog' = deliver(callbackLog, Len(cycles) + 1, cy)
    /\ UNCHANGED <<stations, subscriber, stationNameCache, pureVars>>

\* lines 263-265: the interval fires
Tick_afterStop ==
    /\ polling \in {"active", "stopped"}
    /\ Len(cycles) < MaxCycles
    /\ LET cy == runLoop(NewCycle, stationNameCache)
       IN  /\ cycles' = Append(cycles, cy)
           /\ callbackLog' = deliver(callbackLog, Len(cycles) + 1, cy)
    /\ UNCHANGED <<stations, subscriber, stationNameCache, polling, pureVars>>

Tick_untilFailure ==
    /\ polling = "active"
    /\ Len(cycles) < MaxCycles
    /\ \A j \in DOMAIN callbackLog :
          subscriber = "returns" /\ callbackLog[j].delayData # EmptyMap
    /\ LET cy == runLoop(NewCycle, stationNameCache)
       IN  /\ cycles' = Append(cycles, cy)
           /\ callbackLog' = deliver(callbackLog, Len(cycles) + 1, cy)
    /\ UNCHANGED <<stations, subscriber, stationNameCache, polling, pureVars>>

Tick ==
    /\ polling = "active"
    /\ Len(cycles) < MaxCycles
    /\ LET cy == runLoop(NewCycle, stationNameCache)
       IN  /\ cycles' = Append(cycles, cy)
           /\ callbackLog' = deliver(callbackLog, Len(cycles) + 1, cy)
    /\ UNCHANGED <<stations, subscriber, stationNameCache, polling, pureVars>>

\* lines 268-270: the function startDelayDataPolling returned is called
StopPolling ==
    /\ polling = "active"
    /\ polling' = "stopped"
    /\ UNCHANGED <<stations, subscriber, stationNameCache, cycles, callbackLog, pureVars>>

\* tryFetchStation returns data for the request of station s in cycle c,
\* and the code runs on until everything it started awaits a request again
Respond(c, s, data) ==
    LET cy == cycles[c]
        task == cy.task[s]
        probed == onProbe(s, task, data, stationNameCache)
        next == IF task.pc = "probe" THEN probed.task ELSE onFetch(task, data)
        cache == IF task.pc = "probe" THEN probed.cache ELSE stationNameCache
        fetched == task.pc = "fetch" /\ next.journeys # <<>>
        stepped ==
            [cy EXCEPT
                !.task[s] = next,
                !.requested[s] = IF Awaits(next) THEN @ + 1 ELSE @,
                !.successfulFetches = IF fetched THEN @ + 1 ELSE @,
                !.gotData = IF fetched THEN MapSet(@, s, task.apiName) ELSE @,
                !.unstable = @ \/ (task.pc = "fetch" /\ ~fetched /\ cy.requested[s] > 1),
                !.finished = IF next.pc = "done" THEN @ \cup {s} ELSE @]
        after == resume(stepped, cache)
    IN  /\ stationNameCache' = cache
        /\ cycles' = [cycles EXCEPT ![c] = after]
        /\ callbackLog' = deliver(callbackLog, c, after)
        /\ UNCHANGED <<stations, subscriber, polling, pureVars>>

Outstanding == {<<c, s>> \in (1..Len(cycles)) \X Range(stations) :
                    /\ cycles[c].state = "running"
                    /\ s \in DOMAIN cycles[c].task
                    /\ Awaits(cycles[c].task[s])}

\* what tryFetchStation(name) may return
Fetched(name) == {tryFetchStation(response) : response \in Responses(name)}

Deliver ==
    \E cs \in Outstanding :
        \E data \in Fetched(RequestName(cycles[cs[1]].task[cs[2]])) :
            Respond(cs[1], cs[2], data)

\* the stations of the model: two neighbours of the Bergen line
StationsPolled == <<"Arna", "Bergen">>

PollIdle ==
    /\ stationNameCache = EmptyMap
    /\ polling = "idle"
    /\ cycles = <<>>
    /\ callbackLog = <<>>

Init ==
    /\ stations = StationsPolled
    /\ PollIdle
    /\ subscriber = "returns"
    /\ phase = "polling"
    /\ arg = ""
    /\ ret = ""

Next == StartPolling \/ Tick \/ Deliver \/ StopPolling

Spec == Init /\ [][Next]_vars

\* the same polling with a callback that may throw: the rejection of
\* fetchDelayData().then(callback) goes to .catch(console.error)
Subscribers == {"returns", "throws"}

InitThrowing ==
    /\ stations = StationsPolled
    /\ PollIdle
    /\ subscriber \in Subscribers
    /\ phase = "polling"
    /\ arg = ""
    /\ ret = ""

SpecThrowing == InitThrowing /\ [][Next]_vars

---------------------------------------------------------------------------
(* Properties of the polling orchestrator *)

Cycles == 1..Len(cycles)
Calls == 1..Len(callbackLog)

\* the stations whose fetch at line 231 returned journeys in cycle c
GotData(c) == DOMAIN cycles[c].gotData

\* the journeys those fetches returned, in the order of orderedStations
RECURSIVE PayloadsOf(_, _)
PayloadsOf(ordered, gotData) ==
    IF ordered = <<>> THEN <<>>
    ELSE (IF Head(ordered) \in DOMAIN gotData
          THEN Payload(gotData[Head(ordered)]) ELSE <<>>)
         \o PayloadsOf(Tail(ordered), gotData)

CycleJourneys(c) == PayloadsOf(cycles[c].orderedStations, cycles[c].gotData)

\* the stations the stop names of a list of journeys resolve to
StationsNamed(journeys) ==
    UNION {{find3DStationName(journeys[i].last_stop_name),
            find3DStationName(journeys[i].next_stop_name)} :
                i \in 1..Len(journeys)} \ {Null}

\* every batch of cycle c has been joined
AllBatchesDone(c) ==
    /\ cycles[c].i >= Len(cycles[c].orderedStations)
    /\ cycles[c].task = EmptyMap

\* C6 as stated: the mapping a cycle delivers has exactly the stations for
\* which the fetch returned journeys as its keys (for a fetch that answers
\* each name the same way throughout the cycle).
C6_KeysArePayloadStations ==
    \A j \in Calls :
        ~cycles[callbackLog[j].cycle].unstable =>
            DOMAIN callbackLog[j].delayData = GotData(callbackLog[j].cycle)

\* C6 as amended: the keys of the delivered mapping are the stations that
\* the stop names of the fetched journeys resolve to.
C6_KeysAreNamedStations ==
    \A j \in Calls :
        DOMAIN callbackLog[j].delayData =
            StationsNamed(CycleJourneys(callbackLog[j].cycle))

C6_Witness ==
    \E j \in Calls :
        /\ ~cycles[callbackLog[j].cycle].unstable
        /\ GotData(callbackLog[j].cycle) = {"Bergen"}
        /\ DOMAIN callbackLog[j].delayData = {"Arna", "Bergen"}

C8_EmptyCycleCallsBack ==
    /\ aggregateDelaysByStation(<<>>) = EmptyMap
    /\ \A c \in Cycles :
          /\ (\A s \in DOMAIN cycles[c].task : ~Awaits(cycles[c].task[s]))
                => AllBatchesDone(c)
          /\ (AllBatchesDone(c) /\ GotData(c) = {})
                => \E j \in Calls :
                      callbackLog[j] = [cycle |-> c, delayData |-> EmptyMap]

\* a cycle in which requests were made and none returned journeys
C8_Witness ==
    \E c \in Cycles :
        /\ AllBatchesDone(c)
        /\ GotData(c) = {}
        /\ \A s \in Range(stations) : cycles[c].requested[s] > 0
        /\ \E j \in Calls : callbackLog[j] = [cycle |-> c, delayData |-> EmptyMap]

\* C9: an entry of stationNameCache is never removed and never changes.
C9_CacheEntriesFixed ==
    [][\A s \in DOMAIN stationNameCache :
          /\ s \in DOMAIN stationNameCache'
          /\ stationNameCache'[s] = stationNameCache[s]]_vars

\* C10: a station for which the cache returned the sentinel gets no
\* request in that cycle and contributes no journeys to it.
C10_SentinelShortCircuits ==
    \A c \in Cycles :
        \A s \in cycles[c].sentinelHit :
            /\ cycles[c].requested[s] = 0
            /\ s \notin GotData(c)
            /\ s \in DOMAIN cycles[c].task => cycles[c].task[s] = Settled(<<>>)

\* a cycle found the sentinel for one station while it fetched another
C10_Witness ==
    \E c \in Cycles :
        /\ cycles[c].sentinelHit = {"Arna"}
        /\ cycles[c].requested["Bergen"] > 0
        /\ AllBatchesDone(c)

\* the cycles that have started and not finished
InProgress == {c \in Cycles : cycles[c].state = "running"}

\* C11: once stopPolling has been called the callback is not invoked again.
C11_NoCallbackAfterStop ==
    [][polling = "stopped" => callbackLog' = callbackLog]_vars

\* C12: once stopPolling has been called it stays called, fetchDelayData
\* is not called again, and a request is only made by a cycle that had
\* begun before.
C12_NoCycleAfterStop ==
    [][polling = "stopped" =>
          /\ polling' = "stopped"
          /\ Len(cycles') = Len(cycles)
          /\ \A c \in Cycles :
                cycles'[c].orderedStations = cycles[c].orderedStations]_vars

\* polling is stopped while a cycle that has made several requests is
\* still in flight, and the interval could have started another cycle
C12_Witness ==
    /\ polling = "stopped"
    /\ Len(cycles) < MaxCycles
    /\ \E c \in InProgress : cycles[c].requested["Bergen"] > 1

\* C20: at most one cycle is in progress at any time.
C20_OneCycleInProgress ==
    Cardinality(InProgress) <= 1

\* the cycles whose chain fetchDelayData().then(callback) rejected, the
\* callback having thrown, and went to console.error
Rejected ==
    IF subscriber = "throws" THEN {callbackLog[j].cycle : j \in Calls} ELSE {}

\* C13: until stopPolling is called the interval starts a new cycle,
\* whatever became of the cycles before it (here for as long as the bound
\* on the number of cycles allows one more).
C13_TickRegardless ==
    (polling = "active" /\ Len(cycles) < MaxCycles) => ENABLED Tick

\* a tick started a cycle after the cycle before it had found no station
\* and its callback had thrown
C13_Witness ==
    /\ Len(cycles) = 2
    /\ 1 \in Rejected
    /\ cycles[1].result = EmptyMap
    /\ cycles[2].sentinelHit = {"Arna", "Bergen"}

---------------------------------------------------------------------------
(* Polling three stations, so that two cycles hold more than a batch *)

StationsOverlap == <<"Arna", "Bergen", "Dal">>

InitOverlap ==
    /\ stations = StationsOverlap
    /\ PollIdle
    /\ subscriber = "returns"
    /\ phase = "polling"
    /\ arg = ""
    /\ ret = ""

SpecOverlap == InitOverlap /\ [][Next]_vars

\* C21: at most BATCH_SIZE requests of the orchestrator are outstanding at
\* any time.
C21_OutstandingWithinBatch ==
    Cardinality(Outstanding) <= BATCH_SIZE

---------------------------------------------------------------------------
(* Checking normalizeStationName on bounded inputs *)

NameParts == {"Oslo", "oslo", " S", " stasjon", " "}

RECURSIVE NamesOf(_)
NamesOf(n) ==
    IF n = 0 THEN {""}
    ELSE LET shorter == NamesOf(n - 1)
         IN  shorter \cup {s \o p : s \in shorter, p \in NameParts}

NameInputs == NamesOf(MaxNameParts)

StationsSample == <<"Oslo S", "Ski", "Bergen", "Os">>

InitNormalize ==
    /\ stations = StationsSample
    /\ phase = "input"
    /\ arg \in NameInputs
    /\ ret = ""
    /\ PollIdle
    /\ subscriber = "returns"

CallNormalize ==
    /\ phase = "input"
    /\ phase' = "normalized"
    /\ ret' = normalizeStationName(arg)
    /\ UNCHANGED <<stations, subscriber, arg, pollVars>>

SpecNormalize == InitNormalize /\ [][CallNormalize]_vars

\* C1: normalizeStationName is idempotent: normalizing a normalized name
\* changes nothing.
C1_Idempotent ==
    phase = "normalized" => normalizeStationName(ret) = ret

\* what C19 says of some names, as name and normalized name
C19_Examples ==
    {<<"Oslo S", "oslo">>,                  \* lower-cased, " s" stripped
     <<"oslo stasjon", "oslo">>,            \* " stasjon" stripped
     <<"Oslo S stasjon", "oslo">>,          \* " stasjon" first, " s" after it
     <<"Oslo stasjon S", "oslo stasjon">>,  \* no " stasjon" after the " s"
     <<"Oslo stasjon stasjon", "oslo stasjon">>,    \* one " stasjon" only
     <<"Oslo S S", "oslo s">>,              \* one " s" only
     <<"Oslo  S", "oslo">>,                 \* with all the whitespace before it
     <<" Oslo ", "oslo">>,                  \* trimmed at both ends
     <<"Oslooslo", "oslooslo">>}            \* an "s" not after whitespace stays

\* C19: normalizeStationName gives "oslo" for "Oslo S" and for
\* "oslo stasjon": it lower-cases, strips one trailing " stasjon", then one
\* trailing " s" (with the whitespace before them), and trims.
C19_NormalizedForms ==
    phase = "normalized" =>
        /\ \A e \in C19_Examples : arg = e[1] => ret = e[2]
        /\ toLowerCase(ret) = ret
        /\ trim(ret) = ret

C19_Witness ==
    /\ phase = "normalized"
    /\ arg = "oslo stasjon"
    /\ ret = "oslo"

---------------------------------------------------------------------------
(* Checking find3DStationName on bounded inputs *)

\* the pieces an external name is made of: the sample's "Os" and "Ski",
\* the rest of "Oslo S", and a letter no station of the sample has
FindParts == {"Os", "lo", " S", "Ski", "x"}

RECURSIVE FindNames(_)
FindNames(n) ==
    IF n = 0 THEN {""}
    ELSE LET shorter == FindNames(n - 1)
         IN  shorter \cup {s \o p : s \in shorter, p \in FindParts}

InitFind ==
    /\ stations = StationsSample
    /\ phase = "input"
    /\ arg \in FindNames(MaxNameParts)
    /\ ret = ""
    /\ PollIdle
    /\ subscriber = "returns"

CallFind ==
    /\ phase = "input"
    /\ phase' = "found"
    /\ ret' = find3DStationName(arg)
    /\ UNCHANGED <<stations, subscriber, arg, pollVars>>

SpecFind == InitFind /\ [][CallFind]_vars

\* C14: find3DStationName returns a station whose normalized name equals
\* the normalized external name when there is one ("Os" gives "Os", not
\* "Oslo S"); failing that the first station, in iteration order, whose
\* normalized name contains or is contained in it; failing that null.
C14_ExactBeforePartial ==
    phase = "found" =>
        LET normalized == normalizeStationName(arg)
            names == [i \in 1..Len(stations) |-> normalizeStationName(stations[i])]
            exact == {i \in 1..Len(stations) : names[i] = normalized}
            partial == {i \in 1..Len(stations) :
                            \/ includes(names[i], normalized)
                            \/ includes(normalized, names[i])}
        IN  /\ exact # {} => \E i \in exact : ret = stations[i]
            /\ (exact = {} /\ partial # {}) =>
                  \E i \in partial : /\ ret = stations[i]
                                     /\ \A j \in partial : i <= j
            /\ (exact = {} /\ partial = {}) => ret = Null
            /\ arg = "Os" => ret = "Os"

\* "Os" went to "Os" although "Oslo S" comes first and contains it
C14_Witness ==
    /\ phase = "found"
    /\ arg = "Os"
    /\ ret = "Os"
    /\ includes(normalizeStationName(stations[1]), normalizeStationName(arg))

---------------------------------------------------------------------------
(* Checking generateStationNameVariations on bounded inputs *)

VariationParts == {"Oslo", "oslo", " S", " stasjon", " Stasjon"}

RECURSIVE VariationNames(_)
VariationNames(n) ==
    IF n = 0 THEN {""}
    ELSE LET shorter == VariationNames(n - 1)
         IN  shorter \cup {s \o p : s \in shorter, p \in VariationParts}

InitVariations ==
    /\ stations = StationsSample
    /\ phase = "input"
    /\ arg \in VariationNames(MaxNameParts)
    /\ ret = <<>>
    /\ PollIdle
    /\ subscriber = "returns"

CallVariations ==
    /\ phase = "input"
    /\ phase' = "varied"
    /\ ret' = generateStationNameVariations(arg)
    /\ UNCHANGED <<stations, subscriber, arg, pollVars>>

SpecVariations == InitVariations /\ [][CallVariations]_vars

\* the position of the first occurrence of x in list
FirstIndex(list, x) ==
    CHOOSE i \in 1..Len(list) :
        list[i] = x /\ \A j \in 1..(i - 1) : list[j] # x

\* list holds the elements of candidates, each once, in the order of
\* their first occurrences
FirstOccurrences(list, candidates) ==
    /\ \A i, j \in 1..Len(list) : i # j => list[i] # list[j]
    /\ Range(list) = Range(candidates)
    /\ \A i, j \in 1..Len(list) :
          i < j => FirstIndex(candidates, list[i]) < FirstIndex(candidates, list[j])

\* C15: the list generateStationNameVariations returns has no duplicates,
\* starts with the name, and has every candidate at the place of its
\* first occurrence; for "Oslo S" it has "Oslo S", "Oslo stasjon", "oslo s".
C15_NoDuplicatesInOrder ==
    phase = "varied" =>
        /\ FirstOccurrences(ret, variationsPushed(arg))
        /\ ret[1] = arg
        /\ arg = "Oslo S" => {"Oslo S", "Oslo stasjon", "oslo s"} \subseteq Range(ret)

\* "Oslo S": the candidate "Oslo" was pushed twice and is returned once
C15_Witness ==
    /\ phase = "varied"
    /\ arg = "Oslo S"
    /\ ret = <<"Oslo S", "Oslo S stasjon", "Oslo stasjon", "Oslo", "oslo s">>
    /\ Len(variationsPushed(arg)) = 6

\* the candidates in the priority order C16 gives
PriorityOrder(name) ==
    <<name>>
    \o (IF includes(toLowerCase(name), "stasjon") THEN <<>>
        ELSE <<name \o " stasjon">>)
    \o (IF endsWith(name, " S")
        THEN <<sliceEnd(name, 2) \o " stasjon", sliceEnd(name, 2)>>
        ELSE <<>>)
    \o <<toLowerCase(name)>>

---------------------------------------------------------------------------
(* Checking getDelayCategory on bounded inputs *)

\* n / 0 in JavaScript: NaN for n = 0, else Infinity with the sign of n
NaN == Quot(0, 0)
Infinity == Quot(1, 0)

\* delays around every threshold, in steps of half a second, of both
\* signs; the delays of the documented examples; NaN and the infinities
DelayInputs ==
    {Quot(sign * (2 * t + o), 2) :
        t \in {0, ON_TIME, MINOR, MODERATE, SEVERE}, o \in -2..2, sign \in {-1, 1}}
    \cup {Num(d) : d \in {45, -45, 120, 450, 900, 1500}}
    \cup {NaN, Infinity, Quot(-1, 0)}

InitClassify ==
    /\ stations = StationsSample
    /\ phase = "input"
    /\ arg \in DelayInputs \X DelayInputs
    /\ ret = <<>>
    /\ PollIdle
    /\ subscriber = "returns"

CallClassify ==
    /\ phase = "input"
    /\ phase' = "classified"
    /\ ret' = <<getDelayCategory(arg[1]), getDelayCategory(arg[2])>>
    /\ UNCHANGED <<stations, subscriber, arg, pollVars>>

SpecClassify == InitClassify /\ [][CallClassify]_vars

Severity ==
    [category \in {"on-time", "minor", "moderate", "severe", "chaos"} |->
        CASE category = "on-time" -> 0
          [] category = "minor" -> 1
          [] category = "moderate" -> 2
          [] category = "severe" -> 3
          [] category = "chaos" -> 4]

\* |x| < |y| for two JavaScript numbers (false when either is NaN)
AbsLt(x, y) == Abs(x.num) * y.den < Abs(y.num) * x.den

\* |x| < t and |x| >= t for a JavaScript number x and an integer t
AbsBelow(x, t) == x.den > 0 /\ Abs(x.num) < t * x.den
AbsAtLeast(x, t) ==
    \/ x.den > 0 /\ Abs(x.num) >= t * x.den
    \/ x.den = 0 /\ x.num # 0

\* C17: getDelayCategory gives every input one of the five categories, and
\* of two delays the one of smaller absolute value never gets the more
\* severe category.
C17_TotalAndMonotonic ==
    phase = "classified" =>
        /\ ret[1] \in DOMAIN Severity
        /\ ret[2] \in DOMAIN Severity
        /\ AbsLt(arg[1], arg[2]) => Severity[ret[1]] <= Severity[ret[2]]

\* an early train of smaller absolute delay than a late one, one category
\* apart
C17_Witness ==
    /\ phase = "classified"
    /\ arg = <<Quot(-2 * 1199, 2), Quot(2 * 1200, 2)>>
    /\ ret = <<"severe", "chaos">>

\* C18: getDelayCategory gives d and -d the same category, and the
\* category is on-time below 60, minor from 60 to below 300, moderate from
\* 300 to below 600, severe from 600 to below 1200 and chaos from 1200, the
\* bounds being those of DELAY_THRESHOLDS.
C18_SignFreeStrictBounds ==
    /\ <<ON_TIME, MINOR, MODERATE, SEVERE>> = <<60, 300, 600, 1200>>
    /\ phase = "classified" =>
          LET d == arg[1]
          IN  /\ (arg[2].den = d.den /\ arg[2].num = -d.num) => ret[2] = ret[1]
              /\ AbsBelow(d, 60) => ret[1] = "on-time"
              /\ (AbsAtLeast(d, 60) /\ AbsBelow(d, 300)) => ret[1] = "minor"
              /\ (AbsAtLeast(d, 300) /\ AbsBelow(d, 600)) => ret[1] = "moderate"
              /\ (AbsAtLeast(d, 600) /\ AbsBelow(d, 1200)) => ret[1] = "severe"
              /\ AbsAtLeast(d, 1200) => ret[1] = "chaos"

\* a delay on a bound and its negation
C18_Witness ==
    /\ phase = "classified"
    /\ arg = <<Quot(-2 * 60, 2), Quot(2 * 60, 2)>>
    /\ ret = <<"minor", "minor">>

---------------------------------------------------------------------------
(* Checking aggregateDelaysByStation on bounded inputs *)

\* stop names as the API reports them: two spellings of "Oslo S", "Ski",
\* and a name that matches no station of the sample
LastStopNames == {"Oslo S", "Ski", "Narvik"}
NextStopNames == {"Oslo stasjon", "Ski", "Narvik"}
Delays == {-90, 30, 90}

Journeys ==
    [last_stop_name : LastStopNames, next_stop_name : NextStopNames,
     recorded_delay_seconds : Delays]

RECURSIVE JourneyLists(_)
JourneyLists(n) ==
    IF n = 0 THEN {<<>>}
    ELSE LET shorter == JourneyLists(n - 1)
         IN  shorter \cup {Append(js, j) : js \in shorter, j \in Journeys}

InitAggregate ==
    /\ stations = StationsSample
    /\ phase = "input"
    /\ arg \in JourneyLists(MaxJourneys)
    /\ ret = EmptyMap
    /\ PollIdle
    /\ subscriber = "returns"

CallAggregate ==
    /\ phase = "input"
    /\ phase' = "aggregated"
    /\ ret' = aggregateDelaysByStation(arg)
    /\ UNCHANGED <<stations, subscriber, arg, pollVars>>

SpecAggregate == InitAggregate /\ [][CallAggregate]_vars

\* for each journey of arg, the stations its two stop names resolve to
Resolved ==
    [i \in 1..Len(arg) |-> {find3DStationName(arg[i].last_stop_name),
                            find3DStationName(arg[i].next_stop_name)} \ {Null}]

\* the delays of the journeys at the given indices
DelayAt(i) == arg[i].recorded_delay_seconds

RECURSIVE SumOver(_)
SumOver(indices) ==
    IF indices = {} THEN 0
    ELSE LET i == CHOOSE i \in indices : TRUE
         IN  DelayAt(i) + SumOver(indices \ {i})

MaxAbsOver(indices) ==
    CHOOSE m \in {Abs(DelayAt(i)) : i \in indices} :
        \A i \in indices : Abs(DelayAt(i)) <= m

StationSet == {stations[i] : i \in 1..Len(stations)}

\* C2: maxDelay is the largest absolute value among the delays that were
\* contributed to the station.
C2_MaxDelayIsMaxAbs ==
    phase = "aggregated" =>
        LET resolved == Resolved
        IN  \A s \in DOMAIN ret :
                ret[s].maxDelay =
                    MaxAbsOver({i \in DOMAIN resolved : s \in resolved[i]})

\* two records that reach "Oslo S", the first by its last stop only, the
\* second by its next stop only, with delays 30 and 90
C3_Case ==
    /\ phase = "aggregated"
    /\ Len(arg) = 2
    /\ find3DStationName(arg[1].last_stop_name) = "Oslo S"
    /\ find3DStationName(arg[1].next_stop_name) # "Oslo S"
    /\ find3DStationName(arg[2].next_stop_name) = "Oslo S"
    /\ find3DStationName(arg[2].last_stop_name) # "Oslo S"
    /\ arg[1].recorded_delay_seconds = 30
    /\ arg[2].recorded_delay_seconds = 90

C3_Stats(category) ==
    /\ "Oslo S" \in DOMAIN ret
    /\ ret["Oslo S"].avgDelay.num = 60 * ret["Oslo S"].avgDelay.den
    /\ ret["Oslo S"].maxDelay = 90
    /\ ret["Oslo S"].journeyCount = 2
    /\ ret["Oslo S"].delayCategory = category

\* C3 as stated: delays 30 and 90 on "Oslo S" give mean 60, maximum 90,
\* count 2 and the category "on-time".
C3_OnTime == C3_Case => C3_Stats("on-time")

\* C3 as amended: the same statistics with the category "minor", since a
\* mean of 60 is not below ON_TIME.
C3_Minor == C3_Case => C3_Stats("minor")

C3_Witness == C3_Case /\ ret["Oslo S"].journeyCount = 2

\* C4: every journey counts once for each distinct station among the
\* resolutions of its two stop names, and for no other station.
C4_OncePerStation ==
    phase = "aggregated" =>
        LET resolved == Resolved
            from(s) == {i \in DOMAIN resolved : s \in resolved[i]}
        IN  /\ DOMAIN ret = {s \in StationSet : from(s) # {}}
            /\ \A s \in DOMAIN ret :
                  /\ ret[s].journeyCount = Cardinality(from(s))
                  /\ ret[s].avgDelay.num = SumOver(from(s))

\* one journey with an unresolvable last stop and a resolvable next stop,
\* one whose two names resolve to the same station
C4_Witness ==
    /\ phase = "aggregated"
    /\ Len(arg) = 2
    /\ find3DStationName(arg[1].last_stop_name) = Null
    /\ find3DStationName(arg[1].next_stop_name) = "Ski"
    /\ arg[2].last_stop_name # arg[2].next_stop_name
    /\ find3DStationName(arg[2].last_stop_name) = "Oslo S"
    /\ find3DStationName(arg[2].next_stop_name) = "Oslo S"
    /\ ret["Ski"].journeyCount = 1
    /\ ret["Oslo S"].journeyCount = 1

\* C5: journeyCount is the number of contributed delays and is at least 1,
\* avgDelay is their sum divided by journeyCount, and delayCategory is the
\* category of avgDelay.
C5_MeanAndCategory ==
    phase = "aggregated" =>
        LET resolved == Resolved
            from(s) == {i \in DOMAIN resolved : s \in resolved[i]}
        IN  \A s \in DOMAIN ret :
                /\ ret[s].journeyCount = Cardinality(from(s))
                /\ ret[s].journeyCount >= 1
                /\ ret[s].avgDelay.num = SumOver(from(s))
                /\ ret[s].avgDelay.den = ret[s].journeyCount
                /\ ret[s].delayCategory = getDelayCategory(ret[s].avgDelay)

\* a station whose mean and maximum fall in different categories
C5_Witness ==
    /\ phase = "aggregated"
    /\ \E s \in DOMAIN ret :
          /\ ret[s].journeyCount = 2
          /\ ret[s].delayCategory = "on-time"
          /\ getDelayCategory(Num(ret[s].maxDelay)) = "minor"

---------------------------------------------------------------------------
(* Further properties of the polling orchestrator *)

\* the batch member of station s in cycle c is at the given await
At(c, s, pc) ==
    /\ s \in DOMAIN cycles[c].task
    /\ cycles[c].task[s].pc = pc

\* the batch member of station s in cycle c takes a step
Steps(c, s) ==
    \/ s \notin DOMAIN cycles'[c].task
    \/ cycles'[c].task[s] # cycles[c].task[s]

\* the cache holds the same for station s before and after the step
CacheKept(s) ==
    /\ s \in DOMAIN stationNameCache' <=> s \in DOMAIN stationNameCache
    /\ s \in DOMAIN stationNameCache => stationNameCache'[s] = stationNameCache[s]

\* after the step the cache holds value for station s
CachedAfter(s, value) ==
    /\ s \in DOMAIN stationNameCache'
    /\ stationNameCache'[s] = value

\* C22: on a cache miss the variants are probed one at a time in list
\* order; the first one that has data ends the probing and is cached; when
\* the last one has none the sentinel is cached; the cache is written in
\* the step in which findWorkingApiName returns.
C22_ProbesInOrder ==
    [][\A c \in Cycles : \A s \in Range(stations) :
          (At(c, s, "probe") /\ Steps(c, s)) =>
              LET task == cycles[c].task[s]
                  after == cycles'[c]
              IN  /\ task.variations = generateStationNameVariations(s)
                  /\ cycles[c].requested[s] = task.k
                  /\ IF s \in DOMAIN after.task /\ after.task[s].pc = "probe"
                     THEN /\ after.task[s] = Probing(task.variations, task.k + 1)
                          /\ after.requested[s] = task.k + 1
                          /\ CacheKept(s)
                     ELSE IF s \in DOMAIN after.task /\ after.task[s].pc = "fetch"
                     THEN /\ after.task[s] = Fetching(task.variations[task.k])
                          /\ after.requested[s] = task.k + 1
                          /\ CachedAfter(s, task.variations[task.k])
                     ELSE /\ task.k = Len(task.variations)
                          /\ after.requested[s] = task.k
                          /\ s \in after.finished
                          /\ CachedAfter(s, Null)]_vars

\* one cycle: Bergen was resolved by its second variant, which was then
\* fetched, and all three variants of Arna were probed in vain
C22_Witness ==
    /\ Len(cycles) = 1
    /\ cycles[1].requested = [s \in Range(stations) |-> 3]
    /\ DOMAIN stationNameCache = {"Arna", "Bergen"}
    /\ stationNameCache["Bergen"] = "Bergen stasjon"
    /\ stationNameCache["Arna"] = Null

\* six stations, in the order of railway-data.ts: a batch of five and a
\* batch of one, watched until the interval fires for the first time
StationsBatched == <<"Oslo S", "Ski", "Arna", "Bergen", "Dal", "Os">>

InitBatches ==
    /\ stations = StationsBatched
    /\ PollIdle
    /\ subscriber = "returns"
    /\ phase = "polling"
    /\ arg = ""
    /\ ret = ""

NextFirstCycle == StartPolling \/ Deliver \/ StopPolling

SpecBatches == InitBatches /\ [][NextFirstCycle]_vars

\* the number of the batch that the station at position p of
\* orderedStations belongs to
BatchOf(p) == (p - 1) \div BATCH_SIZE

\* C23: within a cycle no request is made for a station of a batch before
\* every station of the batches before it has finished.
C23_BatchBarrier ==
    \A c \in Cycles :
        LET ordered == cycles[c].orderedStations
        IN  \A p, q \in 1..Len(ordered) :
                (BatchOf(p) < BatchOf(q) /\ cycles[c].requested[ordered[q]] > 0)
                    => ordered[p] \in cycles[c].finished

\* the one station of the second batch has been asked for
C23_Witness ==
    /\ Len(cycles) = 1
    /\ Len(cycles[1].orderedStations) > BATCH_SIZE
    /\ cycles[1].requested[cycles[1].orderedStations[BATCH_SIZE + 1]] > 0

---------------------------------------------------------------------------
(* Checking the station order of fetchDelayData on bounded inputs *)

\* some stations in the order of railway-data.ts; the priority list names
\* four of them, in another order
CanonicalSample ==
    <<"Oslo S", "Nationaltheatret", "Sandvika", "Ski", "Drammen", "Bergen", "Os">>

\* the lists that keep some of the elements of seq, in their order
RECURSIVE Selections(_)
Selections(seq) ==
    IF seq = <<>> THEN {<<>>}
    ELSE LET rest == Selections(Tail(seq))
         IN  rest \cup {<<Head(seq)>> \o r : r \in rest}

InitOrder ==
    /\ stations \in Selections(CanonicalSample)
    /\ phase = "input"
    /\ arg = ""
    /\ ret = <<>>
    /\ PollIdle
    /\ subscriber = "returns"

CallOrder ==
    /\ phase = "input"
    /\ phase' = "ordered"
    /\ ret' = buildOrderedStations
    /\ UNCHANGED <<stations, subscriber, arg, pollVars>>

SpecOrder == InitOrder /\ [][CallOrder]_vars

\* C24: orderedStations has every station exactly once: first the priority
\* stations that are stations, in the order of the priority list, then the
\* other stations in their iteration order.
C24_OrderedIsPermutation ==
    phase = "ordered" =>
        LET priority == Range(stations) \cap Range(priorityStations)
            n == Cardinality(priority)
        IN  /\ Len(ret) = Len(stations)
            /\ Range(ret) = Range(stations)
            /\ \A i \in 1..n : ret[i] \in priority
            /\ \A i, j \in 1..n :
                  i < j => FirstIndex(priorityStations, ret[i])
                              < FirstIndex(priorityStations, ret[j])
            /\ \A i, j \in (n + 1)..Len(ret) :
                  i < j => FirstIndex(stations, ret[i]) < FirstIndex(stations, ret[j])

C24_Witness ==
    /\ phase = "ordered"
    /\ stations = CanonicalSample
    /\ ret = <<"Oslo S", "Bergen", "Drammen", "Sandvika", "Nationaltheatret",
               "Ski", "Os">>

---------------------------------------------------------------------------
(* Failures of the API *)

\* the responses that are failures, with and without a body
FailedResponses ==
    [kind : FailureKinds \ {"empty-array"},
     body : {<<>>, Payload("Bergen stasjon")}]
        \cup {[kind |-> "empty-array", body |-> <<>>]}

\* C25: tryFetchStation returns null for every failed response; whatever
\* fails, a cycle resolves once all its requests have been answered, and
\* its journeys are those of the fetches that returned journeys, so that a
\* name whose request failed contributes none.
C25_FailuresAreNoData ==
    /\ \A response \in FailedResponses : tryFetchStation(response) = NoData
    /\ \A c \in Cycles :
          /\ cycles[c].state \in {"running", "resolved"}
          /\ (\A s \in DOMAIN cycles[c].task : ~Awaits(cycles[c].task[s]))
                => cycles[c].state = "resolved"
          /\ cycles[c].state = "resolved"
                => cycles[c].allJourneys = CycleJourneys(c)

\* every request of a cycle failed, the one for the name the API serves
\* included, and the cycle has resolved
C25_Witness ==
    /\ Len(cycles) = 1
    /\ cycles[1].state = "resolved"
    /\ cycles[1].requested = [s \in Range(stations) |-> 3]
    /\ cycles[1].allJourneys = <<>>
    /\ stationNameCache["Bergen"] = Null

---------------------------------------------------------------------------
(* The fetch under the resolved name *)

\* what C26 says of the stations that have finished in cycle c
OneFetchEach(c) ==
    \A s \in cycles[c].finished :
        LET variations == generateStationNameVariations(s)
            requested == cycles[c].requested[s]
        IN  /\ s \in DOMAIN cycles[c].nameHit =>
                  /\ requested = 1
                  /\ s \in GotData(c) => cycles[c].gotData[s] = cycles[c].nameHit[s]
            /\ (s \in GotData(c) /\ s \notin DOMAIN cycles[c].nameHit) =>
                  /\ requested \in 2..(Len(variations) + 1)
                  /\ cycles[c].gotData[s] = variations[requested - 1]

\* C26: a station whose name is resolved contributes the journeys of one
\* fetch under that name: one request after a cache hit, k probes and one
\* more request when the k-th variant is the first to have data; and when
\* that fetch has no data the station contributes nothing and the cache
\* is left as it is.
C26_OneFetchUnderResolvedName ==
    /\ [](\A c \in Cycles :
            /\ OneFetchEach(c)
            /\ cycles[c].state = "resolved" =>
                  Len(cycles[c].allJourneys) = Len(CycleJourneys(c)))
    /\ [][\A c \in Cycles : \A s \in Range(stations) :
            (At(c, s, "fetch") /\ Steps(c, s)) =>
                /\ stationNameCache' = stationNameCache
                /\ s \in cycles'[c].finished
                /\ cycles'[c].requested[s] = cycles[c].requested[s]
                /\ \/ cycles'[c].gotData = cycles[c].gotData
                   \/ cycles'[c].gotData =
                        MapSet(cycles[c].gotData, s, cycles[c].task[s].apiName)]_vars

\* the second cycle found Bergen's name in the cache, made its one
\* request, got nothing, and the cache still has the name
C26_Witness ==
    /\ Len(cycles) = 2
    /\ "Bergen" \in DOMAIN cycles[2].nameHit
    /\ "Bergen" \in cycles[2].finished
    /\ "Bergen" \notin GotData(2)
    /\ cycles[2].requested["Bergen"] = 1
    /\ stationNameCache["Bergen"] = cycles[2].nameHit["Bergen"]

---------------------------------------------------------------------------
(* What a cycle leaves behind *)

\* the number of the journeys of which a stop name resolves to station
CountFor(station, journeys) ==
    Cardinality({i \in 1..Len(journeys) :
                    station \in {find3DStationName(journeys[i].last_stop_name),
                                 find3DStationName(journeys[i].next_stop_name)}})

\* C27: the mapping a cycle delivers is made of the journeys fetched in
\* that cycle alone: a station has an entry only if one of them names it,
\* whatever another cycle delivered, and its count is the number of them
\* that name it.
C27_NothingCarriedOver ==
    \A j \in Calls :
        LET delayData == callbackLog[j].delayData
            journeys == CycleJourneys(callbackLog[j].cycle)
        IN  /\ \A station \in DOMAIN delayData :
                  delayData[station].journeyCount = CountFor(station, journeys)
            /\ \A k \in Calls : \A station \in DOMAIN callbackLog[k].delayData :
                  CountFor(station, journeys) = 0 => station \notin DOMAIN delayData

\* the first cycle delivered an entry for Bergen, and the second cycle,
\* which fetched no journeys, delivered a mapping without it
C27_Witness ==
    /\ Len(callbackLog) = 2
    /\ callbackLog[1].cycle = 1
    /\ callbackLog[2].cycle = 2
    /\ "Bergen" \in DOMAIN callbackLog[1].delayData
    /\ "Bergen" \in DOMAIN cycles[2].nameHit
    /\ callbackLog[2].delayData = EmptyMap

\* C28: the callback gets the mappings in the order in which their cycles
\* were started.
C28_DeliveredInStartOrder ==
    \A j, k \in Calls : j < k => callbackLog[j].cycle < callbackLog[k].cycle

---------------------------------------------------------------------------
(* The two matching directions on the stations of railway-data.ts *)

\* Object.keys(railwayData.stations)
AllStations ==
    <<"Oslo S", "Nationaltheatret", "Skøyen", "Lysaker", "Sandvika",
      "Asker", "Loenga", "Ski", "Ås", "Vestby", "Moss", "Rygge",
      "Fredrikstad", "Sarpsborg", "Halden", "Kornsjø", "Spydeberg",
      "Askim", "Mysen", "Rakkestad", "Grefsen", "Nydalen", "Roa", "Lunner",
      "Gjøvik", "Drammen", "Sande", "Holmestrand", "Tønsberg",
      "Sandefjord", "Larvik", "Porsgrunn", "Skien", "Notodden",
      "Mjøndalen", "Hokksund", "Vikersund", "Hønefoss", "Nesbyen", "Gol",
      "Ål", "Geilo", "Ustaoset", "Haugastøl", "Finse", "Hallingskeid",
      "Myrdal", "Voss", "Dale", "Arna", "Bergen", "Vatnahalsen",
      "Kjosfossen", "Berekvam", "Flåm", "Lillestrøm", "Dal", "Eidsvoll",
      "Minnesund", "Tangen", "Hamar", "Brumunddal", "Moelv", "Lillehammer",
      "Vinstra", "Otta", "Dombås", "Lesja", "Bjorli", "Åndalsnes",
      "Oppdal", "Støren", "Trondheim S", "Elverum", "Koppang", "Tynset",
      "Røros", "Os", "Steinkjer", "Grong", "Mosjøen", "Mo i Rana",
      "Rognan", "Fauske", "Bodø", "Kongsberg", "Nordagutu", "Bø", "Lunde",
      "Kristiansand", "Vennesla", "Marnardal", "Egersund", "Sandnes",
      "Stavanger", "Hell", "Hegra", "Meråker", "Storlien">>

InitRoundTrip ==
    /\ stations = AllStations
    /\ phase = "input"
    /\ arg \in Range(AllStations)
    /\ ret = <<>>
    /\ PollIdle
    /\ subscriber = "returns"

\* every variation of the station arg is resolved back
CallRoundTrip ==
    /\ phase = "input"
    /\ phase' = "resolved"
    /\ ret' = LET variations == generateStationNameVariations(arg)
              IN  [i \in 1..Len(variations) |-> find3DStationName(variations[i])]
    /\ UNCHANGED <<stations, subscriber, arg, pollVars>>

SpecRoundTrip == InitRoundTrip /\ [][CallRoundTrip]_vars

\* C29: find3DStationName takes every variation of a station back to the
\* station, the station's own name included, and no other station has the
\* same normalized name.
C29_RoundTrip ==
    phase = "resolved" =>
        /\ Len(ret) = Len(generateStationNameVariations(arg))
        /\ \A i \in 1..Len(ret) : ret[i] = arg
        /\ \A i \in 1..Len(stations) :
              normalizeStationName(stations[i]) = normalizeStationName(arg)
                  => stations[i] = arg

\* "Os", whose normalized name is part of earlier stations' names
C29_Witness ==
    /\ phase = "resolved"
    /\ arg = "Os"
    /\ ret = <<"Os", "Os", "Os">>

\* C30: a stop name whose normalized form is empty is resolved to no
\* station.
C30_EmptyNameUnresolved ==
    (phase = "found" /\ normalizeStationName(arg) = "") => ret = Null

=============================================================================
